---- MODULE Spec2Model ----
(***************************************************************************)
(* Capture-Moments: the booking store, the booking submission handlers of  *)
(* app.py (DynamoDB) and app_demo.py (in-process mock_db), the payment    *)
(* confirmation of advanced_features.py, the scheduling engine and the    *)
(* pricing engine of ai_features.py, the pricing endpoint of app_demo.py  *)
(* and the registration of both programs.                                  *)
(*                                                                         *)
(* Form and query-string values are Python strings; they are TLA+ strings  *)
(* here and every conversion the code applies to them (int(), split(':'),  *)
(* strptime) is an operator that can fail.  A float score is kept in       *)
(* tenths (0.5 is 5): the sums the code forms on one date are distinct    *)
(* floats exactly when their tenths are distinct.                          *)
(***************************************************************************)
EXTENDS Integers, Sequences, FiniteSets, TLC

VARIABLES
    program,        \* which entry point runs: "app" (app.py) or "app_demo" (app_demo.py)
    bookings,       \* the booking store: booking_id -> item (bookings_table / mock_db['bookings'])
    payments,       \* payments_table: the sequence of payment items written
    req,            \* per request handler: its position, its locals and its last response
    slots_call,     \* the last answer of the scheduling engine (SchedulingEngine)
    found,          \* the answers of the direct calls of find_optimal_slots, in call order
    quote,          \* the last answer of the pricing calculator (PricingEngine, /api/pricing)
    users,          \* the user store: email -> item (users_table / mock_db['users'])
    reg,            \* per request handler: the position, locals and answer of its register request
    pay             \* the last answer of process_payment

vars == <<program, bookings, payments, req, slots_call, found, quote, users, reg, pay>>

----------------------------------------------------------------------------
(* Bounds of the model *)

NumHandlers == 2        \* request handlers running concurrently
MaxBookings == 2        \* booking items a run stores
MaxPayments == 1        \* payment items a run stores
MaxBooked == 2          \* booked slots handed to is_slot_available in AvailSpec
MaxStored == 2          \* booking items in the store SlotsSpec starts from

Handlers == 1..NumHandlers

----------------------------------------------------------------------------
(* Python values *)

None == "None"                      \* Python None: an absent form field or attribute

\* int(x) of a string: the literals the model uses; any other string raises ValueError
IntLiteral ==
    ("-1" :> -1) @@ ("0" :> 0) @@ ("1" :> 1) @@ ("2" :> 2) @@ ("3" :> 3) @@
    ("09" :> 9) @@ ("10" :> 10) @@ ("11" :> 11) @@ ("12" :> 12) @@
    ("13" :> 13) @@ ("14" :> 14) @@ ("15" :> 15) @@ ("16" :> 16) @@
    ("17" :> 17) @@ ("18" :> 18) @@ ("19" :> 19) @@ ("20" :> 20) @@
    ("00" :> 0) @@ ("01" :> 1) @@ ("02" :> 2) @@ ("03" :> 3) @@ ("04" :> 4) @@
    ("05" :> 5) @@ ("06" :> 6) @@ ("07" :> 7) @@ ("08" :> 8) @@
    ("21" :> 21) @@ ("22" :> 22) @@ ("23" :> 23)

IntRaises(s) == s \notin DOMAIN IntLiteral
PyInt(s) == IntLiteral[s]

\* s.split(':')[0] of the time strings the model uses; None.split raises AttributeError
SplitColonHead ==
    ("09:00" :> "09") @@ ("10:00" :> "10") @@ ("11:00" :> "11") @@ ("12:00" :> "12") @@
    ("13:00" :> "13") @@ ("14:00" :> "14") @@ ("15:00" :> "15") @@ ("16:00" :> "16") @@
    ("17:00" :> "17") @@ ("18:00" :> "18") @@ ("19:00" :> "19") @@ ("20:00" :> "20") @@
    ("10:30" :> "10") @@ ("noon" :> "noon") @@
    ("00:00" :> "00") @@ ("01:00" :> "01") @@ ("02:00" :> "02") @@ ("03:00" :> "03") @@
    ("04:00" :> "04") @@ ("05:00" :> "05") @@ ("06:00" :> "06") @@ ("07:00" :> "07") @@
    ("08:00" :> "08") @@ ("21:00" :> "21") @@ ("22:00" :> "22") @@ ("23:00" :> "23")

\* int(time.split(':')[0]) raises for None and for a head that is no integer literal
HourRaises(t) == t \notin DOMAIN SplitColonHead \/ IntRaises(SplitColonHead[t])
HourOf(t) == PyInt(SplitColonHead[t])

\* datetime.strptime(date, '%Y-%m-%d'): <<year, month, day>> of the date strings the
\* model uses; any other string raises ValueError
DateFields ==
    ("2024-03-04" :> <<2024, 3, 4>>) @@ ("2024-05-18" :> <<2024, 5, 18>>) @@
    ("2024-03-09" :> <<2024, 3, 9>>) @@ ("2024-06-03" :> <<2024, 6, 3>>) @@
    ("2024-11-05" :> <<2024, 11, 5>>) @@ ("2024-12-07" :> <<2024, 12, 7>>) @@
    ("2024-05-19" :> <<2024, 5, 19>>) @@ ("2024-01-12" :> <<2024, 1, 12>>) @@
    ("2024-02-04" :> <<2024, 2, 4>>)

StrptimeRaises(d) == d \notin DOMAIN DateFields

IsLeap(y) == (y % 4 = 0 /\ y % 100 # 0) \/ y % 400 = 0
DaysBeforeMonth(y, m) ==
    LET cum == <<0, 31, 59, 90, 120, 151, 181, 212, 243, 273, 304, 334>>
    IN  cum[m] + (IF m > 2 /\ IsLeap(y) THEN 1 ELSE 0)
\* proleptic Gregorian ordinal of a date, as datetime.toordinal
Ordinal(y, m, d) ==
    LET p == y - 1
    IN  p * 365 + (p \div 4) - (p \div 100) + (p \div 400) + DaysBeforeMonth(y, m) + d
\* date.weekday(): Monday is 0, Sunday is 6
Weekday(date) ==
    LET f == DateFields[date] IN (Ordinal(f[1], f[2], f[3]) + 6) % 7
Month(date) == DateFields[date][2]

----------------------------------------------------------------------------
(* The booking store *)

\* a filter that lets every status block
EveryStatus == {"confirmed", "pending", "cancelled", "completed"}

\* ['confirmed', 'pending']: the statuses the pre-checks and the slot scorer keep
ActiveStatuses == {"confirmed", "pending"}

\* the ascending sequence of a finite set of integers (the order a query returns items in)
RECURSIVE SortedSeq(_)
SortedSeq(S) ==
    IF S = {} THEN <<>>
    ELSE LET m == CHOOSE x \in S : \A y \in S : x <= y
         IN  <<m>> \o SortedSeq(S \ {m})

\* bookings_table.query(IndexName='PhotographerIndex', photographer_id = :p AND event_date = :d):
\* the ids of the items of that photographer and date (an item without the key attributes
\* is not in the index); the loop of app_demo.py selects the same items
QueryPhotographerIndex(store, photographer_id, date) ==
    {b \in DOMAIN store : /\ "photographer_id" \in DOMAIN store[b]
                          /\ store[b].photographer_id = photographer_id
                          /\ store[b].event_date = date}

----------------------------------------------------------------------------
(* ai_features.py: SchedulingEngine *)

time_slots ==
    <<"09:00", "10:00", "11:00", "12:00", "13:00", "14:00",
      "15:00", "16:00", "17:00", "18:00", "19:00", "20:00">>

\* is_slot_available with closed intervals: a slot that starts where a booking ends collides
RECURSIVE ScanBookedSlotsClosed(_, _, _, _)
ScanBookedSlotsClosed(start_hour, end_hour, booked_slots, i) ==
    IF i > Len(booked_slots) THEN "True"
    ELSE IF HourRaises(booked_slots[i][1]) THEN "raise"
    ELSE LET booked_start_hour == HourOf(booked_slots[i][1])
             booked_end_hour == booked_start_hour + booked_slots[i][2]
         IN  IF ~(end_hour < booked_start_hour \/ start_hour > booked_end_hour)
             THEN "False"
             ELSE ScanBookedSlotsClosed(start_hour, end_hour, booked_slots, i + 1)

\* the loop of is_slot_available over booked_slots from position i on: "False" at the
\* first overlapping booked slot, "raise" at a booked start that does not parse
RECURSIVE ScanBookedSlots(_, _, _, _)
ScanBookedSlots(start_hour, end_hour, booked_slots, i) ==
    IF i > Len(booked_slots) THEN "True"
    ELSE IF HourRaises(booked_slots[i][1]) THEN "raise"
    ELSE LET booked_start_hour == HourOf(booked_slots[i][1])
             booked_end_hour == booked_start_hour + booked_slots[i][2]
         IN  IF ~(end_hour <= booked_start_hour \/ start_hour >= booked_end_hour)
             THEN "False"
             ELSE ScanBookedSlots(start_hour, end_hour, booked_slots, i + 1)

\* is_slot_available(start_time, duration, booked_slots): "True", "False" or "raise"
is_slot_available(start_time, duration, booked_slots) ==
    IF HourRaises(start_time) THEN "raise"
    ELSE ScanBookedSlots(HourOf(start_time), HourOf(start_time) + duration, booked_slots, 1)

\* min(1.0, max(0.0, score)) in tenths
Clamp01(score) == IF score > 10 THEN 10 ELSE IF score < 0 THEN 0 ELSE score

\* a score whose late penalty starts at 19:00
calculate_slot_score_late(time_slot, date, duration) ==
    LET hour == HourOf(time_slot)
        golden == IF hour \in {16, 17, 18} THEN 3 ELSE 0
        morning == IF hour \in {10, 11, 12} THEN 2 ELSE 0
        fringe == IF hour < 9 \/ hour >= 19 THEN -2 ELSE 0
        weekend == IF Weekday(date) >= 5 THEN 1 ELSE 0
    IN  Clamp01(5 + golden + morning + fringe + weekend)

\* calculate_slot_score(time_slot, date, duration) in tenths, for a slot and a date that parse
calculate_slot_score(time_slot, date, duration) ==
    LET hour == HourOf(time_slot)
        golden == IF hour \in {16, 17, 18} THEN 3 ELSE 0
        morning == IF hour \in {10, 11, 12} THEN 2 ELSE 0
        fringe == IF hour < 9 \/ hour > 19 THEN -2 ELSE 0
        weekend == IF Weekday(date) >= 5 THEN 1 ELSE 0
    IN  Clamp01(5 + golden + morning + fringe + weekend)

\* a flag that also recommends a slot scoring exactly 0.7
RecommendedAtLeast(score) == score >= 7

\* 'recommended': score > 0.7, in tenths (0.5 + 0.2 is the float 0.7 itself)
Recommended(score) == score > 7

\* an unstable insertion: x goes in front of the elements of equal score
RECURSIVE InsertBeforeEqual(_, _)
InsertBeforeEqual(x, sorted) ==
    IF sorted = <<>> THEN <<x>>
    ELSE IF Head(sorted).score > x.score
         THEN <<Head(sorted)>> \o InsertBeforeEqual(x, Tail(sorted))
         ELSE <<x>> \o sorted

\* list.sort(key=score, reverse=True): stable, so equal scores keep their order.
\* InsertByScore puts x behind every element of the sorted list whose score is >= its own.
RECURSIVE InsertByScore(_, _)
InsertByScore(x, sorted) ==
    IF sorted = <<>> THEN <<x>>
    ELSE IF Head(sorted).score >= x.score
         THEN <<Head(sorted)>> \o InsertByScore(x, Tail(sorted))
         ELSE <<x>> \o sorted

RECURSIVE SortByScore(_)
SortByScore(slots) ==
    IF slots = <<>> THEN <<>>
    ELSE InsertByScore(slots[Len(slots)], SortByScore(SubSeq(slots, 1, Len(slots) - 1)))

\* booked_slots of find_optimal_slots: (event_time, int(duration)) of the confirmed and
\* pending items of the query, in query order
BookedSlots(store, photographer_id, date) ==
    LET ids == SortedSeq({b \in QueryPhotographerIndex(store, photographer_id, date) :
                             store[b].booking_status \in ActiveStatuses})
    IN  [i \in 1..Len(ids) |-> <<store[ids[i]].event_time, store[ids[i]].duration>>]

\* find_optimal_slots that stops one short of the end of time_slots
RECURSIVE CollectSlotsShort(_, _, _, _)
CollectSlotsShort(date, duration, booked_slots, i) ==
    IF i >= Len(time_slots) THEN [raised |-> FALSE, slots |-> <<>>]
    ELSE LET slot == time_slots[i]
             free == is_slot_available(slot, duration, booked_slots)
             rest == CollectSlotsShort(date, duration, booked_slots, i + 1)
             score == calculate_slot_score(slot, date, duration)
         IN  IF free = "raise" THEN [raised |-> TRUE, slots |-> <<>>]
             ELSE IF free = "False" THEN rest
             ELSE IF StrptimeRaises(date) THEN [raised |-> TRUE, slots |-> <<>>]
             ELSE [rest EXCEPT !.slots =
                      <<[time |-> slot, score |-> score, recommended |-> Recommended(score)]>> \o @]

\* the loop of find_optimal_slots over time_slots from position i on: the available slots
\* with their scores; raised when is_slot_available or calculate_slot_score raises
RECURSIVE CollectSlots(_, _, _, _)
CollectSlots(date, duration, booked_slots, i) ==
    IF i > Len(time_slots) THEN [raised |-> FALSE, slots |-> <<>>]
    ELSE LET slot == time_slots[i]
             free == is_slot_available(slot, duration, booked_slots)
             rest == CollectSlots(date, duration, booked_slots, i + 1)
             score == calculate_slot_score(slot, date, duration)
         IN  IF free = "raise" THEN [raised |-> TRUE, slots |-> <<>>]
             ELSE IF free = "False" THEN rest
             ELSE IF StrptimeRaises(date) THEN [raised |-> TRUE, slots |-> <<>>]
             ELSE [rest EXCEPT !.slots =
                      <<[time |-> slot, score |-> score, recommended |-> Recommended(score)]>> \o @]

\* find_optimal_slots(photographer_id, date, duration): the sorted available slots;
\* [] when anything raised (the except branch)
find_optimal_slots(store, photographer_id, date, duration) ==
    LET available_slots ==
            CollectSlots(date, duration, BookedSlots(store, photographer_id, date), 1)
    IN  IF available_slots.raised THEN <<>> ELSE SortByScore(available_slots.slots)

----------------------------------------------------------------------------
(* Requests *)

\* Python truthiness of a form value inside all([...])
Falsy(x) == x \in {None, ""}

\* data.get('duration', '2') / data.get('duration', 2): the default of an absent duration
DurationOrDefault(d) == IF d = None THEN "2" ELSE d

IdleReq ==
    [pc |-> "idle", photographer_id |-> None, event_date |-> None, event_time |-> None,
     event_type |-> None, location |-> None, duration |-> None,
     existing |-> {}, booking_id |-> {},
     repository_failed |-> FALSE, notification |-> "none",
     response |-> [result |-> "none", booking_id |-> {}, conflicts |-> {}]]

\* a handler that has answered: its response, and the booking_id it generated if it
\* stored an item; its other locals are gone.  The response carries the booking_id
\* only where the code returns it.
Answered(result, created, returned, conflicts) ==
    [IdleReq EXCEPT !.pc = "done",
                    !.booking_id = created,
                    !.response = [result |-> result, booking_id |-> returned,
                                  conflicts |-> conflicts]]

\* str(uuid.uuid4()): an identifier no stored item has
NewBookingId(store) == CHOOSE b \in 1..(MaxBookings + 1) : b \notin DOMAIN store

\* a put that replaces the whole store by the one item
PutItemAlone(store, key, item) == [b \in {key} |-> item]

\* an except branch that reports the submission as accepted
except_swallowed(repository_failed, created) ==
    [Answered("success", created, {}, {}) EXCEPT !.repository_failed = repository_failed]

\* the except branch of book_photographer: flash('Error creating booking: ...') and the
\* redirect back to the form, whatever was raised; repository_failed records that it
\* was a call of bookings_table, created the item stored before the exception
except_branch(repository_failed, created) ==
    [Answered("error", created, {}, {}) EXCEPT !.repository_failed = repository_failed]

\* send_sns_alert without its try block: a failing publish raises
send_sns_alert_unguarded(sns_enabled, publish_fails) ==
    IF ~sns_enabled THEN "False" ELSE IF publish_fails THEN "raise" ELSE "True"

\* send_sns_alert(message, subject): "True" after sns.publish, "False" when SNS is off
\* or publish raised (the exception is printed and dropped)
send_sns_alert(sns_enabled, publish_fails) ==
    IF sns_enabled /\ ~publish_fails THEN "True" ELSE "False"

\* the store with one item put under a key (put_item, mock_db['bookings'][id] = ...)
PutItem(store, key, item) ==
    [b \in DOMAIN store \cup {key} |-> IF b = key THEN item ELSE store[b]]

\* a pre-check that lets pending items through: only confirmed ones block
ExistingBookingsConfirmed(store, photographer_id, event_date) ==
    {b \in QueryPhotographerIndex(store, photographer_id, event_date) :
        store[b].booking_status = "confirmed"}

\* the confirmed and pending items of a photographer on a date: the pre-check of both
\* submission handlers (FilterExpression 'booking_status IN (:confirmed, :pending)')
ExistingBookings(store, photographer_id, event_date) ==
    {b \in QueryPhotographerIndex(store, photographer_id, event_date) :
        store[b].booking_status \in ActiveStatuses}

----------------------------------------------------------------------------
(* app.py: book_photographer (POST) *)

\* the item book_photographer stores
booking_data(r) ==
    [photographer_id |-> r.photographer_id, event_date |-> r.event_date,
     event_time |-> r.event_time, event_type |-> r.event_type, location |-> r.location,
     duration |-> PyInt(r.duration), booking_status |-> "pending", payment_status |-> None]

\* login_required, the required-field check and the availability query, which raises
\* when the storage layer fails
BookSubmit(h, photographer_id, form, logged_in, query_fails) ==
    /\ program = "app"
    /\ req[h].pc # "queried"
    /\ req' = [req EXCEPT ![h] =
         IF ~logged_in THEN Answered("login", {}, {}, {})
         ELSE IF \E x \in {form.event_date, form.event_time, form.event_type, form.location} :
                    Falsy(x)
         THEN Answered("validation", {}, {}, {})
         ELSE IF query_fails THEN except_branch(TRUE, {})
         ELSE [IdleReq EXCEPT
                 !.pc = "queried",
                 !.photographer_id = photographer_id,
                 !.event_date = form.event_date,
                 !.event_time = form.event_time,
                 !.event_type = form.event_type,
                 !.location = form.location,
                 !.duration = DurationOrDefault(form.duration),
                 !.existing = ExistingBookings(bookings, photographer_id, form.event_date)]]
    /\ UNCHANGED <<program, users, reg, pay, bookings, payments, slots_call, found, quote>>

\* the rest of the handler: the decision on the query's items, put_item (which raises when
\* the storage layer fails), the notification when SNS is configured, and the answer
BookFinish(h, put_fails, sns_enabled, publish_fails) ==
    /\ program = "app"
    /\ req[h].pc = "queried"
    /\ IF req[h].existing # {}
       THEN /\ req' = [req EXCEPT ![h] = Answered("conflict", {}, {}, {})]
            /\ UNCHANGED bookings
       ELSE IF IntRaises(req[h].duration)
       THEN /\ req' = [req EXCEPT ![h] = except_branch(FALSE, {})]
            /\ UNCHANGED bookings
       ELSE IF put_fails
       THEN /\ req' = [req EXCEPT ![h] = except_branch(TRUE, {})]
            /\ UNCHANGED bookings
       ELSE /\ Cardinality(DOMAIN bookings \ {0}) < MaxBookings
            /\ LET booking_id == NewBookingId(bookings)
                   sent == send_sns_alert(sns_enabled, publish_fails)
                   notification == IF ~sns_enabled THEN "off"
                                   ELSE IF publish_fails THEN "failed" ELSE "sent"
               IN  /\ bookings' = PutItem(bookings, booking_id, booking_data(req[h]))
                   /\ req' = [req EXCEPT ![h] =
                        [(IF sent = "raise" THEN except_branch(FALSE, {booking_id})
                          ELSE Answered("success", {booking_id}, {}, {}))
                         EXCEPT !.notification = notification]]
    /\ UNCHANGED <<program, users, reg, pay, payments, slots_call, found, quote>>

----------------------------------------------------------------------------
(* app_demo.py: book_photographer_api *)

\* the item book_photographer_api stores
demo_booking(r) ==
    [photographer_id |-> r.photographer_id, event_date |-> r.event_date,
     event_time |-> r.event_time, event_type |-> None, location |-> None,
     duration |-> PyInt(r.duration), booking_status |-> "pending", payment_status |-> None]

\* the session check, int(duration) and the conflict loop over mock_db['bookings']
DemoSubmit(h, data, logged_in) ==
    /\ program = "app_demo"
    /\ req[h].pc # "queried"
    /\ req' = [req EXCEPT ![h] =
         IF ~logged_in THEN Answered("login", {}, {}, {})
         ELSE IF IntRaises(DurationOrDefault(data.duration))
         THEN Answered("error", {}, {}, {})
         ELSE [IdleReq EXCEPT
                 !.pc = "queried",
                 !.photographer_id = data.photographer_id,
                 !.event_date = data.event_date,
                 !.event_time = data.event_time,
                 !.duration = DurationOrDefault(data.duration),
                 !.existing = ExistingBookings(bookings, data.photographer_id,
                                               data.event_date)]]
    /\ UNCHANGED <<program, users, reg, pay, bookings, payments, slots_call, found, quote>>

\* the rest of the handler: the 409 answer listing the conflicts, or the insert
DemoFinish(h) ==
    /\ program = "app_demo"
    /\ req[h].pc = "queried"
    /\ IF req[h].existing # {}
       THEN /\ req' = [req EXCEPT ![h] = Answered("conflict", {}, {}, req[h].existing)]
            /\ UNCHANGED bookings
       ELSE /\ Cardinality(DOMAIN bookings \ {0}) < MaxBookings
            /\ LET booking_id == NewBookingId(bookings)
               IN  /\ bookings' = PutItem(bookings, booking_id, demo_booking(req[h]))
                   /\ req' = [req EXCEPT ![h] = Answered("success", {booking_id}, {booking_id}, {})]
    /\ UNCHANGED <<program, users, reg, pay, payments, slots_call, found, quote>>

----------------------------------------------------------------------------
(* advanced_features.py: process_payment *)

\* an update that writes the item anew: its other attributes are lost
UpdateAsPut(store, booking_id) ==
    PutItem(store, booking_id, [booking_status |-> "confirmed", payment_status |-> "paid"])

\* update_item(Key={'booking_id': id}, SET booking_status = confirmed, payment_status = paid):
\* DynamoDB creates the item, with these two attributes only, when the key is not stored
UpdateToPaid(store, booking_id) ==
    IF booking_id \in DOMAIN store
    THEN [store EXCEPT ![booking_id].booking_status = "confirmed",
                       ![booking_id].payment_status = "paid"]
    ELSE PutItem(store, booking_id, [booking_status |-> "confirmed", payment_status |-> "paid"])

\* the payment item process_payment stores
payment_item(booking_id) == [booking_id |-> booking_id, status |-> "completed"]

\* process_payment: int(amount), the Stripe payment intent (which raises StripeError for
\* a declined card), and on 'succeeded' the payment item, built with session['user_id']
\* (KeyError without a login), its put and then the booking update, both calls of the
\* storage layer that can fail; every exception and every other intent status answers
\* success = false
ProcessPayment(booking_id, amount, intent_status, logged_in, put_fails, update_fails) ==
    /\ program = "app"
    /\ IF ~IntRaises(amount) /\ intent_status = "succeeded" /\ logged_in /\ ~put_fails
       THEN /\ Len(payments) < MaxPayments
            /\ payments' = Append(payments, payment_item(booking_id))
            /\ IF update_fails
               THEN /\ UNCHANGED bookings
                    /\ pay' = [success |-> "False"]
               ELSE /\ bookings' = UpdateToPaid(bookings, booking_id)
                    /\ pay' = [success |-> "True"]
       ELSE /\ UNCHANGED <<payments, bookings>>
            /\ pay' = [success |-> "False"]
    /\ UNCHANGED <<program, users, reg, req, slots_call, found, quote>>

----------------------------------------------------------------------------
(* The photographer's or administrator's status change (outside src/) *)

ExternalSetStatus(booking_id, status) ==
    /\ booking_id \in DOMAIN bookings
    /\ bookings[booking_id].booking_status # status
    /\ bookings' = [bookings EXCEPT ![booking_id].booking_status = status]
    /\ UNCHANGED <<program, users, reg, pay, payments, req, slots_call, found, quote>>

----------------------------------------------------------------------------
(* Inputs *)

Photographers == {"p1"}
Amounts == {"1", "abc"}
IntentStatuses == {"succeeded", "requires_action"}

\* every shape of form: absent fields, an unparseable date, a zero and a non-numeric duration
Forms ==
    [event_date : {None, "2024-05-18", "someday"}, event_time : {None, "10:00"},
     event_type : {None, "wedding"}, location : {"Mumbai"},
     duration : {None, "0", "abc"}]

DemoData ==
    [photographer_id : Photographers, event_date : {None, "2024-05-18"},
     event_time : {None, "10:00"}, duration : {None, "0", "abc"}]

\* the forms a client fills in completely and correctly
GoodForms ==
    [event_date : {"2024-03-04", "2024-05-18"}, event_time : {"10:00", "12:00"},
     event_type : {"wedding"}, location : {"Mumbai"}, duration : {None}]

GoodDemoData ==
    [photographer_id : Photographers, event_date : {"2024-03-04", "2024-05-18"},
     event_time : {"10:00", "12:00"}, duration : {None}]

\* a handler with no register request
IdleReg ==
    [pc |-> "idle", username |-> None, email |-> None, password |-> None, role |-> None,
     response |-> "none"]

\* no payment processed yet
NoPayment == [success |-> "none"]

\* no quote asked for yet
NoQuote == [op |-> "none"]

NoCall ==
    [op |-> "none", photographer_id |-> None, date |-> None, duration_arg |-> None,
     start_time |-> None, duration |-> 0, booked_slots |-> <<>>,
     available |-> "none", status |-> 0, available_slots |-> <<>>,
     raised |-> FALSE, score |-> 0]

----------------------------------------------------------------------------
(* The program: concurrent handlers, complete forms *)

Init ==
    /\ program \in {"app", "app_demo"}
    /\ found = <<>>
    /\ quote = NoQuote
    /\ bookings = <<>>
    /\ payments = <<>>
    /\ users = <<>>
    /\ reg = [h \in Handlers |-> IdleReg]
    /\ pay = NoPayment
    /\ req = [h \in Handlers |-> IdleReq]
    /\ slots_call = NoCall

Next ==
    \/ \E h \in Handlers, p \in Photographers, form \in GoodForms :
          BookSubmit(h, p, form, TRUE, FALSE)
    \/ \E h \in Handlers : BookFinish(h, FALSE, FALSE, FALSE)
    \/ \E h \in Handlers, data \in GoodDemoData : DemoSubmit(h, data, TRUE)
    \/ \E h \in Handlers : DemoFinish(h)
    \/ \E b \in DOMAIN bookings, amount \in Amounts, st \in IntentStatuses :
          ProcessPayment(b, amount, st, TRUE, FALSE, FALSE)
    \/ \E b \in DOMAIN bookings, st \in {"confirmed", "cancelled"} :
          ExternalSetStatus(b, st)

Spec == Init /\ [][Next]_vars

----------------------------------------------------------------------------
(* The program: one handler, every shape of form *)

FormNext ==
    \/ \E p \in Photographers, form \in Forms, logged_in \in BOOLEAN :
          BookSubmit(1, p, form, logged_in, FALSE)
    \/ BookFinish(1, FALSE, FALSE, FALSE)
    \/ \E data \in DemoData, logged_in \in BOOLEAN : DemoSubmit(1, data, logged_in)
    \/ DemoFinish(1)
    \/ \E b \in DOMAIN bookings, amount \in Amounts, st \in IntentStatuses :
          ProcessPayment(b, amount, st, TRUE, FALSE, FALSE)
    \/ \E b \in DOMAIN bookings, st \in {"confirmed", "cancelled"} :
          ExternalSetStatus(b, st)

FormSpec == Init /\ [][FormNext]_vars

----------------------------------------------------------------------------
(* The program: submissions one at a time, two photographers, no outside status change *)

SequentialPhotographers == {"p1", "p2"}

SequentialNext ==
    \/ \E p \in SequentialPhotographers, form \in GoodForms :
          BookSubmit(1, p, form, TRUE, FALSE)
    \/ BookFinish(1, FALSE, FALSE, FALSE)
    \/ \E p \in SequentialPhotographers, data \in GoodDemoData :
          DemoSubmit(1, [data EXCEPT !.photographer_id = p], TRUE)
    \/ DemoFinish(1)
    \/ \E b \in DOMAIN bookings, amount \in Amounts, st \in IntentStatuses :
          ProcessPayment(b, amount, st, TRUE, FALSE, FALSE)

SequentialSpec == Init /\ [][SequentialNext]_vars

----------------------------------------------------------------------------
(* app.py and app_demo.py: register (POST) *)

\* generate_password_hash(password): a digest, not the password
generate_password_hash(password) == <<"hash", password>>

\* str(uuid.uuid4()): an identifier no stored user has
NewUserId(store) ==
    CHOOSE id \in 1..(Cardinality(DOMAIN store) + 1) :
        \A e \in DOMAIN store : store[e].user_id # id

\* a register handler that has answered; its locals are gone
RegAnswered(response) == [IdleReg EXCEPT !.pc = "done", !.response = response]

\* the first half of register: the required-field check and the look-up of the email
\* (users_table.get_item, which can fail in app.py; 'email in mock_db[users]' in
\* app_demo.py)
RegisterSubmit(h, form, get_fails) ==
    /\ reg[h].pc # "checked"
    /\ get_fails => program = "app"
    /\ reg' = [reg EXCEPT ![h] =
         IF \E x \in {form.username, form.email, form.password} : Falsy(x)
         THEN RegAnswered("validation")
         ELSE IF get_fails THEN RegAnswered("database error")
         ELSE IF form.email \in DOMAIN users THEN RegAnswered("exists")
         ELSE [IdleReg EXCEPT
                 !.pc = "checked",
                 !.username = form.username,
                 !.email = form.email,
                 !.password = form.password,
                 !.role = IF form.role = None THEN "client" ELSE form.role]]
    /\ UNCHANGED <<program, bookings, payments, req, slots_call, found, quote, users, pay>>

\* the second half of register: the new user_id, the password hash and the put of the
\* item under the email (put_item, which can fail in app.py; mock_db[users][email] = ...
\* in app_demo.py), whatever is stored under that email by now
RegisterFinish(h, put_fails) ==
    /\ reg[h].pc = "checked"
    /\ put_fails => program = "app"
    /\ IF put_fails
       THEN /\ reg' = [reg EXCEPT ![h] = RegAnswered("failed")]
            /\ UNCHANGED users
       ELSE /\ users' =
                 PutItem(users, reg[h].email,
                         [user_id |-> NewUserId(users), username |-> reg[h].username,
                          password |-> generate_password_hash(reg[h].password),
                          role |-> reg[h].role])
            /\ reg' = [reg EXCEPT ![h] = RegAnswered("success")]
    /\ UNCHANGED <<program, bookings, payments, req, slots_call, found, quote, pay>>

\* register forms: two emails, two passwords, an absent email, an absent and a given role
RegisterForms ==
    [username : {"ann"}, email : {None, "a@x.in", "b@x.in"}, password : {"pw1", "pw2"},
     role : {None, "photographer"}]

RegisterNext ==
    \/ \E h \in Handlers, form \in RegisterForms, get_fails \in BOOLEAN :
          RegisterSubmit(h, form, get_fails)
    \/ \E h \in Handlers, put_fails \in BOOLEAN : RegisterFinish(h, put_fails)

RegisterSpec == Init /\ [][RegisterNext]_vars

----------------------------------------------------------------------------
(* advanced_features.py: payments for stored and unknown bookings, with a card, a login *)
(* and a storage layer that can fail                                                    *)

PaymentInit == program = "app" /\ Init

PaymentNext ==
    \/ \E form \in GoodForms : BookSubmit(1, "p1", form, TRUE, FALSE)
    \/ BookFinish(1, FALSE, FALSE, FALSE)
    \/ \E b \in DOMAIN bookings \cup {0}, amount \in Amounts,
          st \in IntentStatuses \cup {"card_error"},
          logged_in \in BOOLEAN, put_fails \in BOOLEAN, update_fails \in BOOLEAN :
            ProcessPayment(b, amount, st, logged_in, put_fails, update_fails)

PaymentSpec == PaymentInit /\ [][PaymentNext]_vars

----------------------------------------------------------------------------
(* app.py: one handler, complete forms, a storage layer and a notification that can fail *)

FailureInit == program = "app" /\ Init

FailureNext ==
    \/ \E p \in Photographers, form \in GoodForms, query_fails \in BOOLEAN :
          BookSubmit(1, p, form, TRUE, query_fails)
    \/ \E put_fails \in BOOLEAN, sns_enabled \in BOOLEAN, publish_fails \in BOOLEAN :
          BookFinish(1, put_fails, sns_enabled, publish_fails)
    \/ \E b \in DOMAIN bookings : ExternalSetStatus(b, "cancelled")

FailureSpec == FailureInit /\ [][FailureNext]_vars

----------------------------------------------------------------------------
(* ai_features.py: the endpoint get_optimal_slots and direct calls of is_slot_available *)

\* /api/optimal-slots: int(duration) (500 when it raises), the 400 for a missing
\* parameter, then find_optimal_slots
GetOptimalSlots(photographer_id, date, duration_arg) ==
    /\ program = "app"
    /\ slots_call' =
         [NoCall EXCEPT
            !.op = "get_optimal_slots",
            !.photographer_id = photographer_id,
            !.date = date,
            !.duration_arg = duration_arg,
            !.duration = IF IntRaises(DurationOrDefault(duration_arg)) THEN 0
                         ELSE PyInt(DurationOrDefault(duration_arg)),
            !.status = IF IntRaises(DurationOrDefault(duration_arg)) THEN 500
                       ELSE IF Falsy(photographer_id) \/ Falsy(date) THEN 400
                       ELSE 200,
            !.available_slots =
                IF IntRaises(DurationOrDefault(duration_arg))
                   \/ Falsy(photographer_id) \/ Falsy(date)
                THEN <<>>
                ELSE find_optimal_slots(bookings, photographer_id, date,
                                        PyInt(DurationOrDefault(duration_arg)))]
    /\ UNCHANGED <<program, users, reg, pay, bookings, payments, req, found, quote>>

\* a call of is_slot_available on the arguments drawn into slots_call
IsSlotAvailable ==
    /\ slots_call.op = "arguments"
    /\ slots_call' =
         [slots_call EXCEPT
            !.op = "is_slot_available",
            !.available = is_slot_available(slots_call.start_time, slots_call.duration,
                                            slots_call.booked_slots)]
    /\ UNCHANGED <<program, users, reg, pay, bookings, payments, req, found, quote>>

\* sequences of at most n elements of S
SeqUpTo(S, n) == UNION {[1..k -> S] : k \in 0..n}

\* the items a store holds after complete and incomplete submissions and status changes
StoredItems ==
    [photographer_id : {"p1"}, event_date : {"2024-05-18", "someday"},
     event_time : {"10:00", "17:00", "noon"}, event_type : {"wedding"},
     location : {"Mumbai"}, duration : {0, 2}, booking_status : {"pending", "cancelled"},
     payment_status : {None}]

SlotsInit ==
    /\ program = "app"
    /\ found = <<>>
    /\ quote = NoQuote
    /\ bookings \in SeqUpTo(StoredItems, MaxStored)
    /\ payments = <<>>
    /\ users = <<>>
    /\ reg = [h \in Handlers |-> IdleReg]
    /\ pay = NoPayment
    /\ req = [h \in Handlers |-> IdleReq]
    /\ \E p \in {None, "p1", "p2"}, date \in {None, "2024-03-04", "2024-05-18", "someday"},
          duration_arg \in {None, "1", "3", "0", "-1", "abc"} :
            slots_call = [NoCall EXCEPT !.op = "arguments",
                                        !.photographer_id = p,
                                        !.date = date,
                                        !.duration_arg = duration_arg]

\* the request drawn into slots_call is served
SlotsNext ==
    /\ slots_call.op = "arguments"
    /\ GetOptimalSlots(slots_call.photographer_id, slots_call.date, slots_call.duration_arg)

SlotsSpec == SlotsInit /\ [][SlotsNext]_vars

BookedSlotTimes == {"10:00", "11:00", "12:00", "noon"}

AvailInit ==
    /\ program = "app"
    /\ found = <<>>
    /\ quote = NoQuote
    /\ bookings = <<>>
    /\ payments = <<>>
    /\ users = <<>>
    /\ reg = [h \in Handlers |-> IdleReg]
    /\ pay = NoPayment
    /\ req = [h \in Handlers |-> IdleReq]
    /\ \E start_time \in {"09:00", "10:00", "11:00", "12:00", "13:00", "10:30", "noon"},
          duration \in -1..3,
          booked_slots \in SeqUpTo(BookedSlotTimes \X (0..2), MaxBooked) :
            slots_call = [NoCall EXCEPT !.op = "arguments",
                                        !.start_time = start_time,
                                        !.duration = duration,
                                        !.booked_slots = booked_slots]

AvailNext == IsSlotAvailable

AvailSpec == AvailInit /\ [][AvailNext]_vars

----------------------------------------------------------------------------
(* ai_features.py: direct calls of calculate_slot_score *)

\* a call of calculate_slot_score on the arguments drawn into slots_call: int() of the
\* hour and strptime raise to the caller
CalculateSlotScore ==
    /\ slots_call.op = "arguments"
    /\ LET raised == HourRaises(slots_call.start_time) \/ StrptimeRaises(slots_call.date)
       IN  slots_call' =
             [slots_call EXCEPT
                !.op = "calculate_slot_score",
                !.raised = raised,
                !.score = IF raised THEN 0
                          ELSE calculate_slot_score(slots_call.start_time, slots_call.date,
                                                    slots_call.duration)]
    /\ UNCHANGED <<program, users, reg, pay, bookings, payments, req, found, quote>>

\* every hour of the day, a time with minutes and one that does not parse
ScoreTimes == DOMAIN SplitColonHead

\* weekdays, Saturdays and a Sunday, and a date that does not parse
ScoreDates ==
    {"2024-03-04", "2024-03-09", "2024-05-18", "2024-05-19", "2024-06-03", "2024-11-05",
     "someday"}

ScoreInit ==
    /\ program = "app"
    /\ found = <<>>
    /\ quote = NoQuote
    /\ bookings = <<>>
    /\ payments = <<>>
    /\ users = <<>>
    /\ reg = [h \in Handlers |-> IdleReg]
    /\ pay = NoPayment
    /\ req = [h \in Handlers |-> IdleReq]
    /\ \E time_slot \in ScoreTimes, date \in ScoreDates, duration \in {1, 2} :
          slots_call = [NoCall EXCEPT !.op = "arguments",
                                      !.start_time = time_slot,
                                      !.date = date,
                                      !.duration = duration]

ScoreNext == CalculateSlotScore

ScoreSpec == ScoreInit /\ [][ScoreNext]_vars

----------------------------------------------------------------------------
(* ai_features.py: direct calls of the SchedulingEngine methods, any number of them *)

MaxCalls == 2           \* calls of find_optimal_slots a run records

\* the orders in which a query can return the items S (items of one photographer and
\* date have equal index keys; DynamoDB fixes no order among them)
Orders(S) ==
    {f \in [1..Cardinality(S) -> S] : \A i, j \in 1..Cardinality(S) : f[i] = f[j] => i = j}

\* a booked_slots loop that stops after the first item of the query
BookedSlotsFirst(store, ids) ==
    LET first == IF Len(ids) = 0 THEN <<>> ELSE <<ids[1]>>
        active == SelectSeq(first, LAMBDA b : store[b].booking_status \in ActiveStatuses)
    IN  [i \in 1..Len(active) |-> <<store[active[i]].event_time, store[active[i]].duration>>]

\* booked_slots of find_optimal_slots for a query that returned the items ids in this
\* order: (event_time, int(duration)) of its confirmed and pending items
BookedSlotsIn(store, ids) ==
    LET active == SelectSeq(ids, LAMBDA b : store[b].booking_status \in ActiveStatuses)
    IN  [i \in 1..Len(active) |-> <<store[active[i]].event_time, store[active[i]].duration>>]

\* a find_optimal_slots that tidies the table: it deletes the items it does not count
FindOptimalSlotsPruning(photographer_id, date, duration, ids, query_fails) ==
    /\ program = "app"
    /\ Len(found) < MaxCalls
    /\ LET available_slots == CollectSlots(date, duration, BookedSlotsIn(bookings, ids), 1)
           kept == SelectSeq(ids, LAMBDA b : bookings[b].booking_status \in ActiveStatuses)
       IN  /\ found' = Append(found,
                [photographer_id |-> photographer_id, date |-> date, duration |-> duration,
                 ids |-> IF query_fails THEN <<>> ELSE ids,
                 query_failed |-> query_fails,
                 available_slots |-> IF query_fails \/ available_slots.raised THEN <<>>
                                     ELSE SortByScore(available_slots.slots)])
           /\ bookings' = [i \in 1..Len(kept) |-> bookings[kept[i]]]
    /\ UNCHANGED <<program, users, reg, pay, payments, req, slots_call, quote>>

\* SchedulingEngine().find_optimal_slots(photographer_id, date, duration) called directly:
\* the query returns its items in the order ids, or fails; every exception ends in the
\* except branch, which returns []
FindOptimalSlots(photographer_id, date, duration, ids, query_fails) ==
    /\ program = "app"
    /\ Len(found) < MaxCalls
    /\ LET available_slots == CollectSlots(date, duration, BookedSlotsIn(bookings, ids), 1)
       IN  found' = Append(found,
              [photographer_id |-> photographer_id, date |-> date, duration |-> duration,
               ids |-> IF query_fails THEN <<>> ELSE ids,
               query_failed |-> query_fails,
               available_slots |-> IF query_fails \/ available_slots.raised THEN <<>>
                                   ELSE SortByScore(available_slots.slots)])
    /\ UNCHANGED <<program, users, reg, pay, bookings, payments, req, slots_call, quote>>

\* SchedulingEngine().is_slot_available(start_time, duration, booked_slots) called directly
CallIsSlotAvailable(start_time, duration, booked_slots) ==
    /\ program = "app"
    /\ slots_call' =
         [NoCall EXCEPT
            !.op = "is_slot_available",
            !.start_time = start_time,
            !.duration = duration,
            !.booked_slots = booked_slots,
            !.available = is_slot_available(start_time, duration, booked_slots)]
    /\ UNCHANGED <<program, users, reg, pay, bookings, payments, req, found, quote>>

\* the items the engine is called against: one photographer and date, times that parse
\* and one that does not, blocking and non-blocking statuses
EngineItems ==
    [photographer_id : {"p1"}, event_date : {"2024-05-18"},
     event_time : {"10:00", "17:00", "noon"}, event_type : {"wedding"},
     location : {"Mumbai"}, duration : {2}, booking_status : {"pending", "cancelled"},
     payment_status : {None}]

EngineInit ==
    /\ program = "app"
    /\ bookings \in SeqUpTo(EngineItems, MaxStored)
    /\ payments = <<>>
    /\ users = <<>>
    /\ reg = [h \in Handlers |-> IdleReg]
    /\ pay = NoPayment
    /\ req = [h \in Handlers |-> IdleReq]
    /\ slots_call = NoCall
    /\ found = <<>>
    /\ quote = NoQuote

EngineNext ==
    \/ \E ids \in Orders(QueryPhotographerIndex(bookings, "p1", "2024-05-18")),
          query_fails \in BOOLEAN :
            FindOptimalSlots("p1", "2024-05-18", 2, ids, query_fails)
    \/ CallIsSlotAvailable("10:00", 2, BookedSlots(bookings, "p1", "2024-05-18"))

EngineSpec == EngineInit /\ [][EngineNext]_vars

----------------------------------------------------------------------------
(* ai_features.py: PricingEngine; app_demo.py: get_dynamic_pricing *)

(***************************************************************************)
(* A price is kept in cents and a multiplier in hundredths (1.35 is 135):  *)
(* the decimal value of the double the code holds.  The double itself can  *)
(* differ from it in the last place (1.0 + 0.2 + 0.15 is                   *)
(* 1.3499999999999999), which shows in round(final_price, 2) only when the *)
(* exact product lies midway between two cents: there the code's answer is *)
(* either neighbour, and the model takes both.                             *)
(***************************************************************************)

\* s.lower() of the event types and locations the model uses; None.lower() raises
\* AttributeError
Lower ==
    ("wedding" :> "wedding") @@ ("Wedding" :> "wedding") @@ ("portrait" :> "portrait") @@
    ("event" :> "event") @@ ("commercial" :> "commercial") @@ ("family" :> "family") @@
    ("birthday" :> "birthday") @@
    ("Mumbai" :> "mumbai") @@ ("New Delhi" :> "new delhi") @@ ("Bangalore" :> "bangalore") @@
    ("hyderabad" :> "hyderabad") @@ ("Chennai" :> "chennai") @@ ("Pune" :> "pune") @@
    ("Navi Mumbai, Pune road" :> "navi mumbai, pune road") @@ ("Goa" :> "goa") @@
    ("Pune, near Mumbai" :> "pune, near mumbai")

\* city in text: the city names that are substrings of the lower-case locations
CitiesIn ==
    ("mumbai" :> {"mumbai"}) @@ ("new delhi" :> {"delhi"}) @@ ("bangalore" :> {"bangalore"}) @@
    ("hyderabad" :> {"hyderabad"}) @@ ("chennai" :> {"chennai"}) @@ ("pune" :> {"pune"}) @@
    ("navi mumbai, pune road" :> {"mumbai", "pune"}) @@ ("goa" :> {}) @@
    ("pune, near mumbai" :> {"pune", "mumbai"})

\* PricingEngine.base_prices
base_prices ==
    ("wedding" :> 1500) @@ ("portrait" :> 300) @@ ("event" :> 800) @@
    ("commercial" :> 1200) @@ ("family" :> 400)

\* PricingEngine.location_multipliers, in the order of the dict
location_multipliers ==
    <<<<"mumbai", 150>>, <<"delhi", 140>>, <<"bangalore", 130>>,
      <<"hyderabad", 120>>, <<"chennai", 120>>, <<"pune", 110>>>>

\* base_prices of get_dynamic_pricing
demo_base_prices ==
    ("wedding" :> 1500) @@ ("portrait" :> 300) @@ ("event" :> 800) @@ ("commercial" :> 1200)

\* location_multipliers of get_dynamic_pricing
demo_location_multipliers ==
    <<<<"mumbai", 150>>, <<"delhi", 140>>, <<"bangalore", 130>>,
      <<"hyderabad", 120>>, <<"chennai", 120>>>>

\* dict.get(key, default)
DictGet(dict, key, default) == IF key \in DOMAIN dict THEN dict[key] ELSE default

\* a loop without the break: the last city of the table the text contains wins
RECURSIVE LocationMultiplierLast(_, _, _)
LocationMultiplierLast(table, text, i) ==
    IF i > Len(table) THEN 100
    ELSE LET later == LocationMultiplierLast(table, text, i + 1)
         IN  IF later # 100 \/ table[i][1] \notin CitiesIn[text] THEN later ELSE table[i][2]

\* the loop 'for city, multiplier in table: if city in text: ... break' from position i
\* on: the multiplier of the first city of the table the text contains, 1.0 if none
RECURSIVE LocationMultiplier(_, _, _)
LocationMultiplier(table, text, i) ==
    IF i > Len(table) THEN 100
    ELSE IF table[i][1] \in CitiesIn[text] THEN table[i][2]
    ELSE LocationMultiplier(table, text, i + 1)

Max(a, b) == IF a >= b THEN a ELSE b

\* a demand multiplier that ignores the calendar
calculate_demand_flat(date, location) == 100

\* a demand multiplier that adds the weekend and the season premiums
calculate_demand_combined(date, location) ==
    IF StrptimeRaises(date) THEN 100
    ELSE 100 + (IF Weekday(date) >= 5 THEN 20 ELSE 0)
             + (IF Month(date) \in {11, 12, 1, 2, 5, 6} THEN 15 ELSE 0)

\* calculate_demand_multiplier(date, location); its own except branch returns 1.0
calculate_demand_multiplier(date, location) ==
    IF StrptimeRaises(date) THEN 100
    ELSE IF Weekday(date) >= 5 THEN 120
    ELSE IF Month(date) \in {11, 12, 1, 2, 5, 6} THEN 115
    ELSE 100

\* multipliers whose weekend and season premiums compound: 1.2 x 1.15 = 1.38
PriceFactorsCompound(location, date, duration, photographer_rating) ==
    [location_multiplier |-> LocationMultiplier(location_multipliers, Lower[location], 1),
     date_multiplier |-> IF Weekday(date) >= 5 /\ Month(date) \in {12, 5, 6} THEN 138
                         ELSE 100 + (IF Weekday(date) >= 5 THEN 20 ELSE 0)
                                  + (IF Month(date) \in {12, 5, 6} THEN 15 ELSE 0),
     duration_multiplier |-> Max(100, 50 * duration),
     rating_multiplier |-> Max(80, 2 * photographer_rating),
     demand_multiplier |-> calculate_demand_multiplier(date, location)]

\* multipliers whose rating factor has no floor
PriceFactorsUnfloored(location, date, duration, photographer_rating) ==
    [location_multiplier |-> LocationMultiplier(location_multipliers, Lower[location], 1),
     date_multiplier |-> 100 + (IF Weekday(date) >= 5 THEN 20 ELSE 0)
                             + (IF Month(date) \in {12, 5, 6} THEN 15 ELSE 0),
     duration_multiplier |-> Max(100, 50 * duration),
     rating_multiplier |-> 2 * photographer_rating,
     demand_multiplier |-> calculate_demand_multiplier(date, location)]

\* the five multipliers of calculate_dynamic_price for arguments that raise nothing;
\* duration in hours, photographer_rating in tenths
PriceFactors(location, date, duration, photographer_rating) ==
    [location_multiplier |-> LocationMultiplier(location_multipliers, Lower[location], 1),
     date_multiplier |-> 100 + (IF Weekday(date) >= 5 THEN 20 ELSE 0)
                             + (IF Month(date) \in {12, 5, 6} THEN 15 ELSE 0),
     duration_multiplier |-> Max(100, 50 * duration),
     rating_multiplier |-> Max(80, 2 * photographer_rating),
     demand_multiplier |-> calculate_demand_multiplier(date, location)]

\* base_price times the five multipliers, exactly, in fortieths of a cent (every base
\* price is a multiple of 100 and the multipliers are multiples of 0.1, 0.05, 0.5, 0.02
\* and 0.05)
PriceProduct(base_price, factors) ==
    (base_price \div 100) * (factors.location_multiplier \div 10)
        * (factors.date_multiplier \div 5) * (factors.duration_multiplier \div 50)
        * (factors.rating_multiplier \div 2) * (factors.demand_multiplier \div 5)

\* a rounding that drops the fraction of a cent
RoundDown(fortieths, tie_up) == fortieths \div 40

\* round(final_price, 2) of a non-negative product given in fortieths of a cent: the
\* nearest cent; midway between two cents the double decides, tie_up tells which way
Round2(fortieths, tie_up) ==
    IF fortieths % 40 = 20 THEN (fortieths \div 40) + (IF tie_up THEN 1 ELSE 0)
    ELSE (fortieths + 20) \div 40

\* what makes the try block of calculate_dynamic_price raise: None.lower() and strptime
PriceRaises(event_type, location, date) ==
    event_type \notin DOMAIN Lower \/ location \notin DOMAIN Lower \/ StrptimeRaises(date)

\* calculate_dynamic_price without the try block: an exception reaches the caller
calculate_price_unguarded(event_type, location, date, duration, photographer_rating, tie_up) ==
    IF PriceRaises(event_type, location, date)
    THEN [outcome |-> "raised", base_price |-> 0, final_price |-> 0, factors |-> <<>>]
    ELSE LET base_price == DictGet(base_prices, Lower[event_type], 500)
             factors == PriceFactors(location, date, duration, photographer_rating)
         IN  [outcome |-> "returned", base_price |-> base_price,
              final_price |-> Round2(PriceProduct(base_price, factors), tie_up),
              factors |-> factors]

\* calculate_dynamic_price whose except branch quotes the base price of the event type
calculate_price_typed_fallback(event_type, location, date, duration, photographer_rating, tie_up) ==
    IF PriceRaises(event_type, location, date)
    THEN LET base_price == IF event_type \in DOMAIN Lower
                           THEN DictGet(base_prices, Lower[event_type], 500) ELSE 500
         IN  [outcome |-> "returned", base_price |-> base_price,
              final_price |-> 100 * base_price, factors |-> <<>>]
    ELSE LET base_price == DictGet(base_prices, Lower[event_type], 500)
             factors == PriceFactors(location, date, duration, photographer_rating)
         IN  [outcome |-> "returned", base_price |-> base_price,
              final_price |-> Round2(PriceProduct(base_price, factors), tie_up),
              factors |-> factors]

\* PricingEngine.calculate_dynamic_price: the quote, or the except branch's
\* {'base_price': 500, 'final_price': 500, 'factors': {}}
calculate_dynamic_price(event_type, location, date, duration, photographer_rating, tie_up) ==
    IF PriceRaises(event_type, location, date)
    THEN [outcome |-> "returned", base_price |-> 500, final_price |-> 50000, factors |-> <<>>]
    ELSE LET base_price == DictGet(base_prices, Lower[event_type], 500)
             factors == PriceFactors(location, date, duration, photographer_rating)
         IN  [outcome |-> "returned", base_price |-> base_price,
              final_price |-> Round2(PriceProduct(base_price, factors), tie_up),
              factors |-> factors]

\* a direct call of PricingEngine().calculate_dynamic_price
CalculateDynamicPrice(event_type, location, date, duration, photographer_rating, tie_up) ==
    /\ program = "app"
    /\ quote' = [op |-> "calculate_dynamic_price", event_type |-> event_type,
                 location |-> location, date |-> date, duration |-> duration,
                 photographer_rating |-> photographer_rating,
                 result |-> calculate_dynamic_price(event_type, location, date, duration,
                                                    photographer_rating, tie_up)]
    /\ UNCHANGED <<program, users, reg, pay, bookings, payments, req, slots_call, found>>

\* GET /api/pricing of app_demo.py: the defaults of absent arguments (today is the
\* default date), int(duration), then base price, location, weekend and duration
\* multipliers; a date that does not parse costs the weekend premium only.  The
\* product of the base price and the three multipliers is in fortieths of a cent.
GetDynamicPricing(event_type_arg, location_arg, date_arg, duration_arg, today, tie_up) ==
    /\ program = "app_demo"
    /\ LET event_type == IF event_type_arg = None THEN "wedding" ELSE event_type_arg
           location == IF location_arg = None THEN "hyderabad" ELSE location_arg
           date == IF date_arg = None THEN today ELSE date_arg
           raises == IntRaises(DurationOrDefault(duration_arg))
           duration == IF raises THEN 0 ELSE PyInt(DurationOrDefault(duration_arg))
           base_price == DictGet(demo_base_prices, Lower[event_type], 500)
           location_multiplier ==
               LocationMultiplier(demo_location_multipliers, Lower[location], 1)
           date_multiplier ==
               IF StrptimeRaises(date) THEN 100 ELSE IF Weekday(date) >= 5 THEN 120 ELSE 100
           duration_multiplier == Max(100, 50 * duration)
           fortieths == (base_price \div 100) * (location_multiplier \div 10)
                            * (date_multiplier \div 5) * (duration_multiplier \div 50) * 1000
       IN  quote' =
             [op |-> "get_dynamic_pricing", event_type |-> event_type,
              location |-> location, date |-> date, duration |-> duration,
              photographer_rating |-> 0,
              result |->
                IF raises
                THEN [outcome |-> "raised", base_price |-> 0, final_price |-> 0,
                      factors |-> <<>>]
                ELSE [outcome |-> "returned", base_price |-> base_price,
                      final_price |-> Round2(fortieths, tie_up),
                      factors |-> [location_multiplier |-> location_multiplier,
                                   date_multiplier |-> date_multiplier,
                                   duration_multiplier |-> duration_multiplier,
                                   weekend_premium |-> date_multiplier > 100]]]
    /\ UNCHANGED <<program, users, reg, pay, bookings, payments, req, slots_call, found>>

EventTypes == {"wedding", "Wedding", "portrait", "event", "commercial", "family", "birthday", None}
Locations ==
    {"Mumbai", "New Delhi", "Bangalore", "hyderabad", "Chennai", "Pune",
     "Navi Mumbai, Pune road", "Pune, near Mumbai", "Goa", None}
Dates ==
    {"2024-01-12", "2024-02-04", "2024-03-04", "2024-03-09", "2024-05-18", "2024-06-03",
     "2024-11-05", "2024-12-07", "someday", None}
Durations == {-1, 1, 2, 3, 4}
Ratings == {-30, 30, 40, 45, 48, 50}

\* the arguments of the next pricing call, drawn into quote
PricingInit ==
    /\ program \in {"app", "app_demo"}
    /\ bookings = <<>>
    /\ payments = <<>>
    /\ users = <<>>
    /\ reg = [h \in Handlers |-> IdleReg]
    /\ pay = NoPayment
    /\ req = [h \in Handlers |-> IdleReq]
    /\ slots_call = NoCall
    /\ found = <<>>
    /\ \E event_type \in EventTypes, location \in Locations, date \in Dates :
          \/ /\ program = "app"
             /\ \E duration \in Durations, photographer_rating \in Ratings :
                   quote = [op |-> "arguments", event_type |-> event_type,
                            location |-> location, date |-> date, duration |-> duration,
                            photographer_rating |-> photographer_rating]
          \/ /\ program = "app_demo"
             /\ \E duration_arg \in {None, "-1", "1", "3", "abc"},
                   today \in {"2024-03-04", "2024-05-18"} :
                   quote = [op |-> "arguments", event_type |-> event_type,
                            location |-> location, date |-> date,
                            duration_arg |-> duration_arg, today |-> today]

\* the call drawn into quote is served
PricingNext ==
    \/ /\ quote.op = "arguments" /\ program = "app"
       /\ \E tie_up \in BOOLEAN :
             CalculateDynamicPrice(quote.event_type, quote.location, quote.date,
                                   quote.duration, quote.photographer_rating, tie_up)
    \/ /\ quote.op = "arguments" /\ program = "app_demo"
       /\ \E tie_up \in BOOLEAN :
             GetDynamicPricing(quote.event_type, quote.location, quote.date,
                               quote.duration_arg, quote.today, tie_up)

PricingSpec == PricingInit /\ [][PricingNext]_vars

----------------------------------------------------------------------------
(* Bookings of every status: submissions and slot queries for one window *)

\* the one window asked for: photographer p1, 2024-05-18, 10:00, the default 2 hours
WindowForm ==
    [event_date |-> "2024-05-18", event_time |-> "10:00", event_type |-> "wedding",
     location |-> "Mumbai", duration |-> None]

WindowData ==
    [photographer_id |-> "p1", event_date |-> "2024-05-18", event_time |-> "10:00",
     duration |-> None]

StatusNext ==
    \/ BookSubmit(1, "p1", WindowForm, TRUE, FALSE)
    \/ BookFinish(1, FALSE, FALSE, FALSE)
    \/ DemoSubmit(1, WindowData, TRUE)
    \/ DemoFinish(1)
    \/ FindOptimalSlots("p1", "2024-05-18", 2,
                        SortedSeq(QueryPhotographerIndex(bookings, "p1", "2024-05-18")), FALSE)
    \/ \E b \in DOMAIN bookings, st \in {"confirmed", "cancelled", "completed"} :
          ExternalSetStatus(b, st)

StatusSpec == Init /\ [][StatusNext]_vars

----------------------------------------------------------------------------
(* The life of a booking item: submissions for one window, payments and status changes *)

LifeNext ==
    \/ BookSubmit(1, "p1", WindowForm, TRUE, FALSE)
    \/ BookFinish(1, FALSE, FALSE, FALSE)
    \/ DemoSubmit(1, WindowData, TRUE)
    \/ DemoFinish(1)
    \/ \E b \in DOMAIN bookings, st \in IntentStatuses,
          put_fails \in BOOLEAN, update_fails \in BOOLEAN :
            ProcessPayment(b, "1", st, TRUE, put_fails, update_fails)
    \/ \E b \in DOMAIN bookings, st \in {"confirmed", "cancelled", "completed"} :
          ExternalSetStatus(b, st)

LifeSpec == Init /\ [][LifeNext]_vars

----------------------------------------------------------------------------
(* Properties *)

\* the hours a half-open interval [start, start + duration) covers
Hours(start, duration) == {t \in -2..48 : start <= t /\ t < start + duration}

\* the request of the call in slots_call and every booked slot handed to it parse
CallParses ==
    /\ ~HourRaises(slots_call.start_time)
    /\ \A i \in 1..Len(slots_call.booked_slots) : ~HourRaises(slots_call.booked_slots[i][1])

\* C3: for a start hour s, a duration dur >= 1 and booked (b, d) pairs, is_slot_available
\* is false exactly when some booked pair has s + dur > b and s < b + d (the half-open
\* rule), and true otherwise; a request 12-14 beside a booking 10-12 is available, a
\* request 11-13 is not.
C3_AvailableIffNoOverlap ==
    (slots_call.op = "is_slot_available" /\ slots_call.duration >= 1 /\ CallParses) =>
        LET s == HourOf(slots_call.start_time)
            e == s + slots_call.duration
            booked == slots_call.booked_slots
            overlap == \E i \in 1..Len(booked) :
                          /\ e > HourOf(booked[i][1])
                          /\ s < HourOf(booked[i][1]) + booked[i][2]
        IN  /\ slots_call.available = (IF overlap THEN "False" ELSE "True")
            /\ (booked = <<<<"10:00", 2>>>> /\ s = 12 /\ e = 14) => slots_call.available = "True"
            /\ (booked = <<<<"10:00", 2>>>> /\ s = 11 /\ e = 13) => slots_call.available = "False"

\* C3 witness: the request 12-14 beside the booking 10-12 was answered available
C3_Witness ==
    /\ slots_call.op = "is_slot_available"
    /\ slots_call.booked_slots = <<<<"10:00", 2>>>>
    /\ slots_call.start_time = "12:00"
    /\ slots_call.duration = 2
    /\ slots_call.available = "True"

\* C9: the slots find_optimal_slots returns are in descending order of score, and of two
\* returned slots of equal score the one with the earlier start time comes first.
C9_SortedByScoreThenTime ==
    slots_call.op = "get_optimal_slots" =>
        \A i, j \in 1..Len(slots_call.available_slots) :
            i < j =>
                LET a == slots_call.available_slots[i]
                    b == slots_call.available_slots[j]
                IN  /\ a.score >= b.score
                    /\ a.score = b.score => HourOf(a.time) < HourOf(b.time)

\* C9 witness: an answer with slots of equal score and slots of different scores
C9_Witness ==
    /\ slots_call.op = "get_optimal_slots"
    /\ \E i, j \in 1..Len(slots_call.available_slots) :
          i < j /\ slots_call.available_slots[i].score = slots_call.available_slots[j].score
    /\ \E i, j \in 1..Len(slots_call.available_slots) :
          slots_call.available_slots[i].score > slots_call.available_slots[j].score

\* the start times an answer of the scheduling engine lists
ReturnedTimes == {slots_call.available_slots[i].time : i \in 1..Len(slots_call.available_slots)}

\* the catalog start times is_slot_available accepts against the pending and confirmed
\* bookings of the photographer and date of the call
FreeCatalogTimes ==
    {time_slots[i] : i \in {k \in 1..Len(time_slots) :
        is_slot_available(time_slots[k], slots_call.duration,
                          BookedSlots(bookings, slots_call.photographer_id, slots_call.date))
            = "True"}}

----------------------------------------------------------------------------
(* Properties of the booking store and the submission handlers *)

\* an item of a submission: it has the key attributes (an item process_payment created
\* for an unknown booking_id has none)
Submitted(item) == "photographer_id" \in DOMAIN item

SameCalendar(a, b) == a.photographer_id = b.photographer_id /\ a.event_date = b.event_date

\* the hours of an item whose event_time parses; no hours otherwise
ItemHours(item) ==
    IF HourRaises(item.event_time) THEN {}
    ELSE Hours(HourOf(item.event_time), item.duration)

\* two submitted items block each other: same photographer, same date, common hours
Collide(a, b) == SameCalendar(a, b) /\ ItemHours(a) \cap ItemHours(b) # {}

Active(item) == item.booking_status \in {"pending", "confirmed"}

\* C1: any two distinct pending or confirmed bookings of one photographer and one
\* event date have disjoint intervals [start hour, start hour + duration).
C1_NoDoubleBooking ==
    \A a, b \in DOMAIN bookings :
        (a # b /\ Submitted(bookings[a]) /\ Submitted(bookings[b])
               /\ Active(bookings[a]) /\ Active(bookings[b]))
            => ~Collide(bookings[a], bookings[b])

\* C2: two requests for overlapping windows of one photographer and date never both
\* succeed: no two handlers have both answered success for bookings that collide and
\* that both still stand as pending (so neither was ever cancelled to make room).
C2_NotBothSucceed ==
    \A h, g \in Handlers :
        (h # g /\ req[h].pc = "done" /\ req[g].pc = "done"
               /\ req[h].response.result = "success" /\ req[g].response.result = "success")
            => \A a \in req[h].booking_id, b \in req[g].booking_id :
                  (bookings[a].booking_status = "pending"
                     /\ bookings[b].booking_status = "pending")
                      => ~Collide(bookings[a], bookings[b])

\* the booked slots among the items a handler's pre-check read
ReadSlots(h) ==
    LET ids == SortedSeq(req[h].existing)
    IN  [i \in 1..Len(ids) |-> <<bookings[ids[i]].event_time, bookings[ids[i]].duration>>]

\* the hours a handler's request asks for
RequestHours(h) ==
    IF HourRaises(req[h].event_time) \/ IntRaises(req[h].duration) THEN {}
    ELSE Hours(HourOf(req[h].event_time), PyInt(req[h].duration))

\* C4: a submission is answered with a conflict exactly when is_slot_available rejects
\* its window against the pending and confirmed bookings read for its photographer and
\* date, and every booking a conflict answer lists overlaps the requested window.
C4_ConflictIffUnavailable ==
    [][\A h \in Handlers :
          (req[h].pc = "queried" /\ req'[h].pc = "done") =>
              /\ (req'[h].response.result = "conflict") <=>
                    (is_slot_available(req[h].event_time, PyInt(req[h].duration),
                                       ReadSlots(h)) = "False")
              /\ \A b \in req'[h].response.conflicts :
                    ItemHours(bookings[b]) \cap RequestHours(h) # {}]_vars

\* C5: the insert of a booking is conditional: no step stores a booking while a pending
\* or confirmed booking that collides with it is in the store.
C5_InsertIsConditional ==
    [][\A b \in DOMAIN bookings' \ DOMAIN bookings :
          Submitted(bookings'[b]) =>
              \A a \in DOMAIN bookings :
                  (Submitted(bookings[a]) /\ Active(bookings[a]))
                      => ~Collide(bookings[a], bookings'[b])]_vars

\* C6: no booking is stored for a duration of zero or less.
C6_NoEmptyDurationStored ==
    \A b \in DOMAIN bookings : Submitted(bookings[b]) => bookings[b].duration >= 1

\* the request a handler holds has every field the handler's interface takes, a date
\* that parses and a numeric duration of at least 1
WellFormed(r) ==
    /\ ~Falsy(r.photographer_id) /\ ~Falsy(r.event_date) /\ ~Falsy(r.event_time)
    /\ program = "app" => (~Falsy(r.event_type) /\ ~Falsy(r.location))
    /\ ~StrptimeRaises(r.event_date)
    /\ ~IntRaises(r.duration) /\ PyInt(r.duration) >= 1

\* C7: a submission with a missing or malformed field never reaches the repository: a
\* handler that has read the booking store holds a well-formed request.
C7_ValidatedBeforeRead ==
    \A h \in Handlers : req[h].pc = "queried" => WellFormed(req[h])

\* a step in which handler h answers
Answers(h) == req'[h] # req[h] /\ req'[h].pc = "done"

\* the store gains exactly the item b, pending, and keeps every other item as it was
AddsOnly(b) ==
    /\ b \notin DOMAIN bookings
    /\ DOMAIN bookings' = DOMAIN bookings \cup {b}
    /\ bookings'[b].booking_status = "pending"
    /\ \A a \in DOMAIN bookings : bookings'[a] = bookings[a]

----------------------------------------------------------------------------
(* Properties of repeated calls of the scheduling engine *)

\* two recorded calls of find_optimal_slots took the same arguments and both read the store
SameCall(a, b) ==
    /\ a.photographer_id = b.photographer_id /\ a.date = b.date /\ a.duration = b.duration
    /\ ~a.query_failed /\ ~b.query_failed

C12_RecommendedIffAbove ==
    slots_call.op = "get_optimal_slots" =>
        \A i \in 1..Len(slots_call.available_slots) :
            LET slot == slots_call.available_slots[i]
            IN  /\ slot.recommended = (slot.score > 7)
                /\ slot.score = 7 => ~slot.recommended

\* C12 witness: an answer lists a slot scoring exactly 0.7 that is not recommended and
\* a slot scoring more that is
C12_Witness ==
    /\ slots_call.op = "get_optimal_slots"
    /\ \E i, j \in 1..Len(slots_call.available_slots) :
          /\ slots_call.available_slots[i].score = 7
          /\ ~slots_call.available_slots[i].recommended
          /\ slots_call.available_slots[j].score = 8
          /\ slots_call.available_slots[j].recommended

----------------------------------------------------------------------------
(* Properties of the pricing calculator *)

FactorNames ==
    {"location_multiplier", "date_multiplier", "duration_multiplier", "rating_multiplier",
     "demand_multiplier"}

\* the call in quote is a call of calculate_dynamic_price with these arguments
QuoteOf(event_type, location, date, duration, photographer_rating) ==
    /\ quote.op = "calculate_dynamic_price"
    /\ quote.event_type = event_type /\ quote.location = location /\ quote.date = date
    /\ quote.duration = duration /\ quote.photographer_rating = photographer_rating

\* the quote is a computed one: it came out of the try block
Computed == quote.op = "calculate_dynamic_price" /\ DOMAIN quote.result.factors # {}

\* C13: for every successfully computed quote the final price is the product of the
\* base price and the five reported multipliers rounded to 2 decimal places (a nearest
\* cent), the breakdown has exactly the five multipliers, and every one is >= 0;
\* quote('portrait','Chennai','2024-03-04',2,4.0) is 300 x 1.2 x 1.0 x 1.0 x 0.8 x 1.0 = 288.0.
C13_FinalIsRoundedProduct ==
    Computed =>
        LET r == quote.result
            exact == PriceProduct(r.base_price, r.factors)
        IN  /\ DOMAIN r.factors = FactorNames
            /\ \A n \in FactorNames : r.factors[n] >= 0
            /\ 40 * r.final_price - exact <= 20
            /\ exact - 40 * r.final_price <= 20
            /\ r.factors = PriceFactors(quote.location, quote.date, quote.duration,
                                        quote.photographer_rating)
            /\ QuoteOf("portrait", "Chennai", "2024-03-04", 2, 40) =>
                  /\ r.base_price = 300 /\ r.final_price = 28800
                  /\ r.factors = [location_multiplier |-> 120, date_multiplier |-> 100,
                                  duration_multiplier |-> 100, rating_multiplier |-> 80,
                                  demand_multiplier |-> 100]

\* C13 witness: a computed quote whose exact product is not a whole number of cents
C13_Witness ==
    /\ Computed
    /\ PriceProduct(quote.result.base_price, quote.result.factors) % 40 \notin {0, 20}
    /\ quote.result.final_price > 100 * quote.result.base_price

\* C14 as stated: quote('wedding','Mumbai','2024-05-18',4,4.8) has base 1500, location
\* 1.5, date 1.35, duration 2.0, rating 0.96, demand 1.2 and a final price of 6998.6.
C14_Original ==
    (QuoteOf("wedding", "Mumbai", "2024-05-18", 4, 48) /\ quote.result.outcome = "returned") =>
        /\ quote.result.base_price = 1500
        /\ quote.result.factors = [location_multiplier |-> 150, date_multiplier |-> 135,
                                   duration_multiplier |-> 200, rating_multiplier |-> 96,
                                   demand_multiplier |-> 120]
        /\ quote.result.final_price = 699860

\* C14 amended: quote('wedding','Mumbai','2024-05-18',4,4.8) has base 1500, location
\* 1.5, date 1.35 (2024-05-18 is a Saturday in May), duration 2.0, rating 0.96, demand
\* 1.2 and a final price of 6998.4, the product 1500 x 1.5 x 1.35 x 2.0 x 0.96 x 1.2.
C14_WeddingMumbaiQuote ==
    (QuoteOf("wedding", "Mumbai", "2024-05-18", 4, 48) /\ quote.result.outcome = "returned") =>
        /\ Weekday("2024-05-18") = 5
        /\ quote.result.base_price = 1500
        /\ quote.result.factors = [location_multiplier |-> 150, date_multiplier |-> 135,
                                   duration_multiplier |-> 200, rating_multiplier |-> 96,
                                   demand_multiplier |-> 120]
        /\ quote.result.final_price = 699840
        /\ 40 * quote.result.final_price = PriceProduct(1500, quote.result.factors)

\* C14 witness: the quote of the wedding in Mumbai on 2024-05-18 was computed
C14_Witness ==
    /\ QuoteOf("wedding", "Mumbai", "2024-05-18", 4, 48)
    /\ quote.result.outcome = "returned"
    /\ quote.result.final_price = 699840

\* a pricing call, of either program, that returned a computed quote
Quoted ==
    /\ quote.op \in {"calculate_dynamic_price", "get_dynamic_pricing"}
    /\ quote.result.outcome = "returned"
    /\ DOMAIN quote.result.factors # {}

\* C15: the base price is looked up by event type (wedding 1500, portrait 300, event 800,
\* commercial 1200, family 400) and is 500 for any unrecognized event type; the location
\* multiplier is 1.0 for any location containing none of the listed cities.
C15_BasePriceAndLocationDefault ==
    Quoted =>
        LET listed == ("wedding" :> 1500) @@ ("portrait" :> 300) @@ ("event" :> 800) @@
                      ("commercial" :> 1200) @@ ("family" :> 400)
            cities == {"mumbai", "delhi", "bangalore", "hyderabad", "chennai", "pune"}
        IN  /\ quote.event_type \in DOMAIN listed =>
                  quote.result.base_price = listed[quote.event_type]
            /\ Lower[quote.event_type] \notin DOMAIN listed => quote.result.base_price = 500
            /\ CitiesIn[Lower[quote.location]] \cap cities = {} =>
                  quote.result.factors.location_multiplier = 100

\* C16: when the date cannot be parsed, calculate_dynamic_price raises nothing to its
\* caller and returns a quote whose final price equals its base price and whose factor
\* breakdown is empty.
C16_UnparseableDateFallsBack ==
    (quote.op = "calculate_dynamic_price" /\ StrptimeRaises(quote.date)) =>
        /\ quote.result.outcome = "returned"
        /\ quote.result.final_price = 100 * quote.result.base_price
        /\ DOMAIN quote.result.factors = {}

\* C16 witness: a wedding in Mumbai was quoted for a date that does not parse
C16_Witness ==
    /\ quote.op = "calculate_dynamic_price"
    /\ quote.date = "someday"
    /\ quote.event_type = "wedding" /\ quote.location = "Mumbai"
    /\ quote.result.base_price = 500

----------------------------------------------------------------------------
(* Properties of a submission whose storage layer or notification fails *)

\* C17: a failure of the storage layer while a booking submission reads or writes the
\* booking repository is surfaced as a failure of the request: a submission whose
\* repository call failed answers with the error outcome, neither success nor conflict.
C17_RepositoryFailureSurfaced ==
    [][\A h \in Handlers :
          (Answers(h) /\ req'[h].repository_failed) =>
              /\ req'[h].response.result = "error"
              /\ req'[h].response.result \notin {"success", "conflict"}]_vars

\* C17 witness: a submission whose put_item failed has answered, with a booking of an
\* earlier submission in the store
C17_Witness ==
    \E h \in Handlers :
        /\ req[h].pc = "done"
        /\ req[h].repository_failed
        /\ req[h].response.result = "error"
        /\ DOMAIN bookings = {1}

\* C18: a failure of the outbound notification after a booking was persisted never fails
\* the submission: the booking is stored in pending status and the caller receives the
\* success outcome.
C18_NotificationFailureIgnored ==
    [][\A h \in Handlers :
          (Answers(h) /\ req'[h].notification = "failed") =>
              /\ req'[h].response.result = "success"
              /\ \E b \in DOMAIN bookings' : AddsOnly(b) /\ req'[h].booking_id = {b}]_vars

\* C18 witness: a submission whose notification failed has answered success and its
\* booking is stored, pending
C18_Witness ==
    \E h \in Handlers :
        /\ req[h].pc = "done"
        /\ req[h].notification = "failed"
        /\ req[h].response.result = "success"
        /\ \A b \in req[h].booking_id :
              b \in DOMAIN bookings /\ bookings[b].booking_status = "pending"

----------------------------------------------------------------------------
(* Properties of the statuses that block a window *)

\* the stored bookings of a photographer and date that are pending or confirmed
Blocking(photographer_id, date) ==
    {b \in DOMAIN bookings : /\ Submitted(bookings[b])
                             /\ bookings[b].photographer_id = photographer_id
                             /\ bookings[b].event_date = date
                             /\ Active(bookings[b])}

\* the catalog start times whose window of this duration meets no blocking booking
OpenTimes(photographer_id, date, duration) ==
    {time_slots[i] : i \in {k \in 1..Len(time_slots) :
        \A b \in Blocking(photographer_id, date) :
            ItemHours(bookings[b]) \cap Hours(HourOf(time_slots[k]), duration) = {}}}

\* C19: only bookings with status pending or confirmed block a window: the booking
\* pre-check reads exactly the pending and confirmed bookings of the photographer and
\* date and answers a conflict exactly when it read one, and the slot scorer lists
\* exactly the catalog times that meet no pending or confirmed booking; cancelled and
\* completed bookings are ignored by both.
C19_OnlyActiveStatusesBlock ==
    [][/\ \A h \in Handlers :
            /\ (req[h].pc # "queried" /\ req'[h].pc = "queried") =>
                  req'[h].existing = Blocking(req'[h].photographer_id, req'[h].event_date)
            /\ (req[h].pc = "queried" /\ req'[h].pc = "done") =>
                  (req'[h].response.result = "conflict") = (req[h].existing # {})
       /\ Len(found') > Len(found) =>
            LET call == found'[Len(found')]
            IN  {call.available_slots[i].time : i \in 1..Len(call.available_slots)}
                    = OpenTimes(call.photographer_id, call.date, call.duration)]_vars

\* C19 witness: with the first booking of the window cancelled or completed, the slot
\* scorer read it and listed 10:00, and a second submission for the window was accepted
C19_Witness ==
    /\ DOMAIN bookings = {1, 2}
    /\ bookings[1].booking_status \in {"cancelled", "completed"}
    /\ bookings[2].booking_status = "pending"
    /\ bookings[2].event_time = bookings[1].event_time
    /\ req[1].pc = "done" /\ req[1].response.result = "success" /\ req[1].booking_id = {2}
    /\ \E k \in 1..Len(found) :
          /\ found[k].ids = <<1>>
          /\ \E i \in 1..Len(found[k].available_slots) :
                found[k].available_slots[i].time = "10:00"

----------------------------------------------------------------------------
(* Properties of the engine's effects *)

\* a step in which is_slot_available or find_optimal_slots was called and answered
EngineCall == Len(found') > Len(found) \/ slots_call' # slots_call

\* C20: the availability check and the slot scoring have no side effects: a call of
\* is_slot_available or of find_optimal_slots, however many were made before and in
\* whatever order, leaves the booking store (and the payment store) as it was.
C20_EngineLeavesStore ==
    [][EngineCall => (bookings' = bookings /\ payments' = payments)]_vars

\* C20 witness: against a store of two bookings both methods were called, the slot
\* scorer more than once, and is_slot_available after a call of find_optimal_slots
C20_Witness ==
    /\ Len(bookings) = 2
    /\ Len(found) >= 2
    /\ slots_call.op = "is_slot_available"
    /\ slots_call.available = "False"
    /\ found[1].available_slots # <<>>

----------------------------------------------------------------------------
(* Properties of the life of a booking item *)

BookingStatuses == {"pending", "confirmed", "completed", "cancelled"}

\* the step keeps every attribute of item b other than those in changed
KeepsAllBut(b, changed) ==
    /\ b \in DOMAIN bookings'
    /\ DOMAIN bookings'[b] = DOMAIN bookings[b]
    /\ \A f \in DOMAIN bookings[b] \ changed : bookings'[b][f] = bookings[b][f]
    /\ bookings'[b].booking_status \in BookingStatuses

\* C21 as stated: a stored booking identifier stays stored in every later state, and the
\* only change an operation makes to a stored booking is a transition of its status
\* among pending, confirmed, completed and cancelled.
C21_Original ==
    [][\A b \in DOMAIN bookings : KeepsAllBut(b, {"booking_status"})]_vars

\* C21 amended: a stored booking identifier stays stored in every later state, and an
\* operation changes nothing of a stored booking but its status, among pending,
\* confirmed, completed and cancelled, and its payment status, which process_payment
\* sets to paid together with the status confirmed.
C21_NeverDeletedOnlyStatus ==
    [][\A b \in DOMAIN bookings :
          /\ KeepsAllBut(b, {"booking_status", "payment_status"})
          /\ bookings'[b].payment_status # bookings[b].payment_status =>
                 /\ bookings'[b].payment_status = "paid"
                 /\ bookings'[b].booking_status = "confirmed"]_vars

\* C21 witness: a submitted booking was paid and later completed, and a second booking
\* was stored after it
C21_Witness ==
    /\ {1, 2} \subseteq DOMAIN bookings
    /\ bookings[1].payment_status = "paid"
    /\ bookings[1].booking_status = "completed"
    /\ bookings[1].event_time = "10:00"
    /\ Len(payments) = 1

----------------------------------------------------------------------------
(* Properties of the slot score *)

\* 1 when the condition holds, 0 otherwise
Indicator(condition) == IF condition THEN 1 ELSE 0

\* the Saturdays and Sundays among the dates of the model
WeekendDates == {"2024-03-09", "2024-05-18", "2024-05-19", "2024-12-07", "2024-02-04"}

\* a call of calculate_slot_score that returned
Scored == slots_call.op = "calculate_slot_score" /\ ~slots_call.raised

\* C22: for every start hour 0..23 and every date, calculate_slot_score is
\* clamp(0.5 + 0.3*[hour in {16,17,18}] + 0.2*[hour in {10,11,12}]
\* - 0.2*[hour < 9 or hour > 19] + 0.1*[Saturday or Sunday], 0.0, 1.0), and so lies in
\* [0, 1] (scores in tenths).
C22_SlotScoreFormula ==
    Scored =>
        LET hour == HourOf(slots_call.start_time)
            sum == 5 + 3 * Indicator(hour \in {16, 17, 18})
                     + 2 * Indicator(hour \in {10, 11, 12})
                     - 2 * Indicator(hour < 9 \/ hour > 19)
                     + 1 * Indicator(slots_call.date \in WeekendDates)
        IN  /\ hour \in 0..23
            /\ slots_call.score = (IF sum < 0 THEN 0 ELSE IF sum > 10 THEN 10 ELSE sum)
            /\ slots_call.score >= 0 /\ slots_call.score <= 10

\* C22 witness: the score of a 19:00 slot on a Sunday, 0.6
C22_Witness ==
    /\ Scored
    /\ slots_call.start_time = "19:00"
    /\ slots_call.date = "2024-05-19"
    /\ slots_call.score = 6

----------------------------------------------------------------------------
(* Properties of the multipliers of the pricing calculator *)

\* the cities in the order of the table
CityOrder == <<"mumbai", "delhi", "bangalore", "hyderabad", "chennai", "pune">>

CityMultiplier ==
    ("mumbai" :> 150) @@ ("delhi" :> 140) @@ ("bangalore" :> 130) @@
    ("hyderabad" :> 120) @@ ("chennai" :> 120) @@ ("pune" :> 110)

\* the cities that occur, in any letter case, in the location of the quote
CitiesOfQuote == CitiesIn[Lower[quote.location]]

\* C23: the location multiplier is that of the first city, in the table order mumbai,
\* delhi, bangalore, hyderabad, chennai, pune, that occurs as a case-insensitive
\* substring of the location; when several cities occur, the earliest in table order
\* wins wherever it stands in the string.
C23_FirstCityInTableOrderWins ==
    (Computed /\ CitiesOfQuote # {}) =>
        \E i \in 1..Len(CityOrder) :
            /\ CityOrder[i] \in CitiesOfQuote
            /\ \A j \in 1..(i - 1) : CityOrder[j] \notin CitiesOfQuote
            /\ quote.result.factors.location_multiplier = CityMultiplier[CityOrder[i]]

\* C23 witness: a location that names Pune before Mumbai was quoted at Mumbai's 1.5
C23_Witness ==
    /\ Computed
    /\ quote.location = "Pune, near Mumbai"
    /\ quote.result.factors.location_multiplier = 150

\* the dates of the model in December, May or June
HolidaySeasonDates == {"2024-05-18", "2024-05-19", "2024-06-03", "2024-12-07"}

\* C24: the date multiplier is 1.0 plus 0.2 on a Saturday or Sunday plus 0.15 when the
\* month is December, May or June; the premiums add, so the multiplier is one of 1.0,
\* 1.15, 1.2, 1.35 and never exceeds 1.35.
C24_DateMultiplierAdds ==
    Computed =>
        /\ quote.result.factors.date_multiplier =
               100 + 20 * Indicator(quote.date \in WeekendDates)
                   + 15 * Indicator(quote.date \in HolidaySeasonDates)
        /\ quote.result.factors.date_multiplier \in {100, 115, 120, 135}
        /\ quote.result.factors.date_multiplier <= 135

\* C24 witness: a Saturday in December was quoted with both premiums
C24_Witness ==
    /\ Computed
    /\ quote.date = "2024-12-07"
    /\ quote.result.factors.date_multiplier = 135

\* the weekdays of the model in the months 11, 12, 1, 2, 5, 6
WeddingSeasonWeekdays == {"2024-01-12", "2024-06-03", "2024-11-05"}

\* C25: the demand multiplier is 1.2 on a Saturday or Sunday whatever the month,
\* otherwise 1.15 when the month is in {11, 12, 1, 2, 5, 6}, otherwise 1.0; the weekend
\* case takes precedence and the two are never combined.
C25_DemandWeekendFirst ==
    Computed =>
        quote.result.factors.demand_multiplier =
            (IF quote.date \in WeekendDates THEN 120
             ELSE IF quote.date \in WeddingSeasonWeekdays THEN 115
             ELSE 100)

\* C25 witness: a Sunday in February was quoted with the weekend demand only
C25_Witness ==
    /\ Computed
    /\ quote.date = "2024-02-04"
    /\ quote.result.factors.demand_multiplier = 120

\* C26: the rating multiplier is max(0.8, rating / 5.0): every rating below 4.0 yields
\* exactly 0.8, so the product is never below 80% of what it is at a rating multiplier
\* of 1.0 (ratings in tenths, multipliers in hundredths).
C26_RatingFloor ==
    Computed =>
        LET r == quote.result
            at_one == [r.factors EXCEPT !.rating_multiplier = 100]
        IN  /\ r.factors.rating_multiplier = Max(80, (100 * quote.photographer_rating) \div 50)
            /\ quote.photographer_rating < 40 => r.factors.rating_multiplier = 80
            /\ 5 * PriceProduct(r.base_price, r.factors)
                   >= 4 * PriceProduct(r.base_price, at_one)

\* C26 witness: a photographer rated 3.0 was quoted at 80% of the price at multiplier 1.0
C26_Witness ==
    /\ Computed
    /\ quote.photographer_rating = 30
    /\ quote.result.factors.rating_multiplier = 80
    /\ 5 * quote.result.final_price =
           4 * Round2(PriceProduct(quote.result.base_price,
                                   [quote.result.factors EXCEPT !.rating_multiplier = 100]),
                      TRUE)

\* the try block of the recorded call of calculate_dynamic_price raised: None has no
\* lower(), and strptime rejects the date
FailedInternally ==
    /\ quote.op = "calculate_dynamic_price"
    /\ \/ quote.event_type = None
       \/ quote.location = None
       \/ quote.date \notin DOMAIN DateFields

\* C30: whenever calculate_dynamic_price fails internally, the fallback quote is exactly
\* base price 500, final price 500 and an empty factor breakdown, whatever the event
\* type, location, duration and rating.
C30_FallbackQuoteIsFixed ==
    FailedInternally =>
        /\ quote.result.outcome = "returned"
        /\ quote.result.base_price = 500
        /\ quote.result.final_price = 50000
        /\ quote.result.factors = <<>>

\* C30 witness: a 4-hour commercial shoot of a photographer rated 4.8 with no location
\* got the fallback quote
C30_Witness ==
    /\ FailedInternally
    /\ quote.event_type = "commercial" /\ quote.location = None
    /\ quote.date = "2024-05-18" /\ quote.duration = 4 /\ quote.photographer_rating = 48
    /\ quote.result.final_price = 50000

----------------------------------------------------------------------------
(* Properties of submissions processed one at a time *)

\* the pending and confirmed bookings of a photographer on a date
ActiveOn(photographer_id, date) ==
    {b \in DOMAIN bookings : /\ bookings[b].photographer_id = photographer_id
                             /\ bookings[b].event_date = date
                             /\ bookings[b].booking_status \in {"pending", "confirmed"}}

\* C27: with submissions processed one at a time and no status changed from outside,
\* each (photographer, event date) pair has at most one booking in status pending or
\* confirmed: a request that passed the pre-check found no such booking on its date,
\* and one that did not pass found one, whatever its time.
C27_OneActiveBookingPerDay ==
    /\ \A p \in SequentialPhotographers, d \in {"2024-03-04", "2024-05-18"} :
          Cardinality(ActiveOn(p, d)) <= 1
    /\ req[1].pc = "queried" =>
          req[1].existing = ActiveOn(req[1].photographer_id, req[1].event_date)

\* C27 witness: with two bookings stored, one of them paid, the pre-check of a request
\* for 12:00 found the booking at 10:00 on its date
C27_Witness ==
    /\ Cardinality(DOMAIN bookings) = 2
    /\ \E b \in DOMAIN bookings : bookings[b].booking_status = "confirmed"
    /\ req[1].pc = "queried"
    /\ req[1].event_time = "12:00"
    /\ \E b \in req[1].existing : bookings[b].event_time = "10:00"

----------------------------------------------------------------------------
(* Properties of registration *)

\* handler h answers in this step
RegAnswers(h) == reg'[h] # reg[h] /\ reg'[h].pc = "done"

\* C29: registration never modifies an existing user: a stored user's record
\* (identifier, password hash, role) is the same after every step, and a register
\* request that answers while its email is stored is rejected, also when two register
\* requests for the same email are processed concurrently.
C29_RegistrationKeepsExistingUser ==
    [][/\ \A e \in DOMAIN users : e \in DOMAIN users' /\ users'[e] = users[e]
       /\ \A h \in Handlers :
             (RegAnswers(h) /\ reg[h].email \in DOMAIN users) =>
                 reg'[h].response # "success"]_vars

----------------------------------------------------------------------------
(* Properties of process_payment *)

\* C28: process_payment leaves the stored state unchanged whenever it responds with
\* success = false (no payment record written, no booking status changed), and a payment
\* record with status completed exists for a booking only if that booking has been set
\* to confirmed and paid.
C28_FailedPaymentWritesNothing ==
    [][/\ (req' = req /\ pay'.success = "False") =>
             (payments' = payments /\ bookings' = bookings)
       /\ \A i \in 1..Len(payments') :
             payments'[i].status = "completed" =>
                 /\ payments'[i].booking_id \in DOMAIN bookings'
                 /\ bookings'[payments'[i].booking_id].booking_status = "confirmed"
                 /\ bookings'[payments'[i].booking_id].payment_status = "paid"]_vars

====
